---- MODULE Spec2Model ----
(***************************************************************************)
(* A model of the Shopify insights scraper (app/services/shopify_scraper.py *)
(* and app/routers/insights.py).                                            *)
(*                                                                          *)
(* Python strings on which the code computes (split, strip, lower, `in`)    *)
(* are sequences of one-character strings; strings that are only stored     *)
(* are TLA+ strings.  A call either returns a value or raises: the records  *)
(* that describe a call carry a pc of "returned" or "raised".               *)
(***************************************************************************)
EXTENDS Integers, Sequences, FiniteSets, TLC

VARIABLES
    fetch,      \* one call of ShopifyScraper.fetch_url
    pager,      \* one call of ShopifyScraper.get_products_json
    norm,       \* one call of ShopifyScraper.parse_product
    matcher,    \* one call of ShopifyScraper.extract_hero_products
    run,        \* one request: the router handler around scrape_shopify_store
    probe,      \* one call of ShopifyScraper.extract_policies
    linker,     \* one call of ShopifyScraper.extract_important_links
    analysis    \* one request to the competitor-analysis handler

vars == <<fetch, pager, norm, matcher, run, probe, linker, analysis>>

Idle == [pc |-> "idle"]

(***************************************************************************)
(* Python str operations, on sequences of characters.                       *)
(***************************************************************************)

\* s[i:] for a 1-based i
DropFirst(s, n) == SubSeq(s, n + 1, Len(s))

\* s.startswith(p)
StartsWith(s, p) == Len(p) <= Len(s) /\ SubSeq(s, 1, Len(p)) = p

\* s.find(sub): the 1-based index of the first occurrence, 0 when there is none
Find(s, sub) ==
    LET hits == {i \in 1..(Len(s) - Len(sub) + 1) : SubSeq(s, i, i + Len(sub) - 1) = sub}
    IN  IF hits = {} THEN 0 ELSE CHOOSE i \in hits : \A j \in hits : i <= j

\* sub in s
Contains(s, sub) == sub = <<>> \/ Find(s, sub) # 0

UpperCase == <<"A", "B", "C", "D", "E", "F", "G", "H", "I", "J", "K", "L", "M",
               "N", "O", "P", "Q", "R", "S", "T", "U", "V", "W", "X", "Y", "Z">>
LowerCase == <<"a", "b", "c", "d", "e", "f", "g", "h", "i", "j", "k", "l", "m",
               "n", "o", "p", "q", "r", "s", "t", "u", "v", "w", "x", "y", "z">>

LowerChar(c) ==
    IF \E i \in 1..Len(UpperCase) : UpperCase[i] = c
    THEN LowerCase[CHOOSE i \in 1..Len(UpperCase) : UpperCase[i] = c]
    ELSE c

\* s.lower()
Lower(s) == [i \in 1..Len(s) |-> LowerChar(s[i])]

\* s.split(sep), sep non-empty: the list of the pieces between the occurrences
RECURSIVE Split(_, _)
Split(s, sep) ==
    LET i == Find(s, sep)
    IN  IF i = 0 THEN <<s>>
        ELSE <<SubSeq(s, 1, i - 1)>> \o Split(DropFirst(s, i + Len(sep) - 1), sep)

\* s.strip(): leading and trailing blanks removed
RECURSIVE Strip(_)
Strip(s) ==
    IF s = <<>> THEN s
    ELSE IF Head(s) = " " THEN Strip(Tail(s))
    ELSE IF s[Len(s)] = " " THEN Strip(SubSeq(s, 1, Len(s) - 1))
    ELSE s

\* str(n) of a natural number
Digits == <<"0", "1", "2", "3", "4", "5", "6", "7", "8", "9">>
RECURSIVE IntToStr(_)
IntToStr(n) ==
    IF n < 10 THEN <<Digits[n + 1]>>
    ELSE IntToStr(n \div 10) \o <<Digits[(n % 10) + 1]>>

(***************************************************************************)
(* HTML documents.  A document is the sequence of its nodes in document     *)
(* order, a text run [tag |-> "text", s] or an anchor [tag |-> "a", href];  *)
(* an anchor may lack its href.  The empty string is the empty sequence.    *)
(***************************************************************************)

Text(s)   == [tag |-> "text", s |-> s]
Anchor(h) == [tag |-> "a", href |-> h]
BareAnchor == [tag |-> "a"]

EmptyHtml == <<>>

\* the characters of a node as they stand in the markup
NodeChars(n) ==
    IF n.tag = "text" THEN n.s
    ELSE IF "href" \in DOMAIN n THEN n.href
    ELSE <<>>

\* sub in html, for a sub that holds no markup character
HtmlContains(html, sub) == \E i \in 1..Len(html) : Contains(NodeChars(html[i]), sub)

\* sub in html.lower()
HtmlLowerContains(html, sub) ==
    \E i \in 1..Len(html) : Contains(Lower(NodeChars(html[i])), sub)

(***************************************************************************)
(* fetch_url: up to three GETs of one URL.                                  *)
(*                                                                          *)
(* What one GET meets is an outcome: a response [kind |-> "resp", status,   *)
(* body], or an exception raised inside the try block (connecting, or       *)
(* reading the body) [kind |-> "exc"].  The endpoint is a script: its i-th  *)
(* element answers the i-th request.                                        *)
(***************************************************************************)

Resp(status, body) == [kind |-> "resp", status |-> status, body |-> body]
ConnError == [kind |-> "exc"]

IsOk(o) == o.kind = "resp" /\ o.status = 200

\* range(3)
MaxAttempts == 3

\* asyncio.sleep(5 * (attempt + 1)), attempt counted from 0
RateLimitDelay_fixed(attempt) == 5
RateLimitDelay(attempt) == 5 * (attempt + 1)

\* asyncio.sleep(2)
ErrorDelay == 2

FetchStart(script) ==
    [pc |-> "loop", attempt |-> 0, script |-> script, reqs |-> <<>>,
     sleeps |-> <<>>, body |-> EmptyHtml, status |-> 0]

\* the end of one loop iteration that did not return
NextAttempt(st, delay) ==
    [st EXCEPT !.attempt = @ + 1, !.sleeps = Append(@, delay)]

\* One iteration of the for loop that propagates the exception of a failed GET.
FetchStep_nocatch(st) ==
    LET o  == st.script[Len(st.reqs) + 1]
        s1 == [st EXCEPT !.reqs = Append(@, o)]
    IN  IF o.kind = "exc" THEN [s1 EXCEPT !.pc = "raised"]
        ELSE IF o.status = 200
             THEN [s1 EXCEPT !.pc = "returned", !.body = o.body, !.status = o.status]
        ELSE IF o.status = 429 THEN NextAttempt(s1, RateLimitDelay(st.attempt))
        ELSE NextAttempt(s1, ErrorDelay)

\* One iteration of the for loop: the GET, and what the code does with its outcome.
FetchStep(st) ==
    LET o  == st.script[Len(st.reqs) + 1]
        s1 == [st EXCEPT !.reqs = Append(@, o)]
    IN  IF o.kind = "exc" THEN NextAttempt(s1, ErrorDelay)
        ELSE IF o.status = 200
             THEN [s1 EXCEPT !.pc = "returned", !.body = o.body, !.status = o.status]
        ELSE IF o.status = 429 THEN NextAttempt(s1, RateLimitDelay(st.attempt))
        ELSE NextAttempt(s1, ErrorDelay)

\* after the loop: return "", 500
FetchGiveUp(st) == [st EXCEPT !.pc = "returned", !.body = EmptyHtml, !.status = 500]

\* the whole call, for the callers of fetch_url
RECURSIVE FetchRun(_)
FetchRun(st) ==
    IF st.pc # "loop" THEN st
    ELSE IF st.attempt < MaxAttempts THEN FetchRun(FetchStep(st))
    ELSE FetchGiveUp(st)

fetch_url(script) == FetchRun(FetchStart(script))

(***************************************************************************)
(* The fetcher on its own: every script of outcomes, one GET per step.      *)
(***************************************************************************)

\* how many outcomes a script holds: one more than the code may consume
ScriptLen == 4

SampleDoc == <<Text(<<"o", "k">>)>>

Outcomes ==
    {Resp(200, SampleDoc), Resp(200, EmptyHtml), Resp(429, EmptyHtml),
     Resp(403, SampleDoc), ConnError}

Scripts == [1..ScriptLen -> Outcomes]

InitFetch ==
    /\ fetch \in {FetchStart(s) : s \in Scripts}
    /\ pager = Idle /\ norm = Idle /\ matcher = Idle /\ run = Idle
    /\ probe = Idle /\ linker = Idle /\ analysis = Idle

\* lines 36-59: one pass through the loop body
FetchRequest ==
    /\ fetch.pc = "loop"
    /\ fetch.attempt < MaxAttempts
    /\ fetch' = FetchStep(fetch)
    /\ UNCHANGED <<pager, norm, matcher, run, probe, linker, analysis>>

\* lines 61-62: the loop ran out
FetchExhausted ==
    /\ fetch.pc = "loop"
    /\ fetch.attempt >= MaxAttempts
    /\ fetch' = FetchGiveUp(fetch)
    /\ UNCHANGED <<pager, norm, matcher, run, probe, linker, analysis>>

NextFetch == FetchRequest \/ FetchExhausted

SpecFetch == InitFetch /\ [][NextFetch]_vars

\* the script answers 429, 429 and then 200
ThrottledTwice(script) ==
    /\ script[1].kind = "resp" /\ script[1].status = 429
    /\ script[2].kind = "resp" /\ script[2].status = 429
    /\ IsOk(script[3])

\* C4: against an endpoint answering 429, 429, 200 the call does not raise and
\* makes at most 3 requests; once returned it has made exactly 3, returns the
\* 200 body with status 200, and slept strictly longer before the 3rd request
\* than before the 2nd.
C4_RetryBackoff ==
    ThrottledTwice(fetch.script) =>
        /\ fetch.pc # "raised"
        /\ Len(fetch.reqs) <= 3
        /\ fetch.pc = "returned" =>
              /\ Len(fetch.reqs) = 3
              /\ fetch.status = 200
              /\ fetch.body = fetch.script[3].body
              /\ Len(fetch.sleeps) = 2
              /\ fetch.sleeps[2] > fetch.sleeps[1]

C4_Witness ==
    /\ ThrottledTwice(fetch.script)
    /\ fetch.pc = "returned"
    /\ fetch.body = SampleDoc
    /\ fetch.sleeps = <<5, 10>>

\* no request of the log was answered 200
AllFailed(reqs) == \A i \in 1..Len(reqs) : ~IsOk(reqs[i])

\* C5: whatever the outcomes, fetch_url makes at most 3 requests, none after
\* the first 200, never raises, always has a next step until it returns, and
\* after 3 failed attempts returns the empty body with status 500.
C5_FetchTotal ==
    /\ Len(fetch.reqs) <= 3
    /\ \A i \in 1..(Len(fetch.reqs) - 1) : ~IsOk(fetch.reqs[i])
    /\ fetch.pc \in {"loop", "returned"}
    /\ fetch.pc = "loop" => ENABLED NextFetch
    /\ (fetch.pc = "returned" /\ AllFailed(fetch.reqs)) =>
          /\ Len(fetch.reqs) = 3
          /\ fetch.body = EmptyHtml
          /\ fetch.status = 500

C5_Witness ==
    /\ fetch.pc = "returned"
    /\ fetch.status = 500
    /\ fetch.reqs = <<ConnError, Resp(429, EmptyHtml), Resp(403, SampleDoc)>>

(***************************************************************************)
(* JSON values, as json.loads builds them.  Strings are sequences of        *)
(* characters, numbers are naturals, an object's fields are a function from *)
(* its keys (the empty object has the empty function <<>>).                 *)
(***************************************************************************)

JNull        == [t |-> "null"]
JStr(s)      == [t |-> "str", s |-> s]
JNum(n)      == [t |-> "num", n |-> n]
JBool(b)     == [t |-> "bool", b |-> b]
JList(items) == [t |-> "list", items |-> items]
JObj(fields) == [t |-> "obj", fields |-> fields]

NoFields == <<>>

\* key in d
HasKey(d, key) == key \in DOMAIN d.fields

\* d.get(key, default)
Get(d, key, default) == IF HasKey(d, key) THEN d.fields[key] ELSE default

\* bool(v)
Truthy(v) ==
    CASE v.t = "null" -> FALSE
      [] v.t = "str"  -> v.s # <<>>
      [] v.t = "num"  -> v.n # 0
      [] v.t = "bool" -> v.b
      [] v.t = "list" -> v.items # <<>>
      [] v.t = "obj"  -> DOMAIN v.fields # {}

\* isinstance(v, list), isinstance(v, dict), isinstance(v, str)
IsList(v) == v.t = "list"
IsDict(v) == v.t = "obj"
IsStr(v)  == v.t = "str"

\* str(v) of a scalar
PyStr(v) ==
    CASE v.t = "str"  -> v.s
      [] v.t = "num"  -> IntToStr(v.n)
      [] v.t = "null" -> <<"N", "o", "n", "e">>
      [] v.t = "bool" -> IF v.b THEN <<"T", "r", "u", "e">>
                                ELSE <<"F", "a", "l", "s", "e">>

\* x or '' for an x that is a string or None
OrEmpty(v) == IF Truthy(v) THEN v.s ELSE <<>>

\* Optional[...] values: None, or the value in a one-element sequence
None    == <<>>
Some(x) == <<x>>

\* the outcome of a call
Returned(v) == [pc |-> "returned", val |-> v]
Raised(msg) == [pc |-> "raised", exc |-> msg]

(***************************************************************************)
(* ProductSchema (models/schemas.py) and parse_product.                     *)
(***************************************************************************)

\* str() of the pydantic ValidationError, up to its first line
ValidationErrorMsg ==
    <<"1", " ", "v", "a", "l", "i", "d", "a", "t", "i", "o", "n", " ", "e", "r",
      "r", "o", "r", " ", "f", "o", "r", " ", "P", "r", "o", "d", "u", "c", "t",
      "S", "c", "h", "e", "m", "a">>

\* the fields of ProductSchema that have a default
ProductDefaults ==
    [id |-> None, price |-> None, compare_at_price |-> None, images |-> <<>>,
     variants |-> <<>>, tags |-> <<>>, vendor |-> None, product_type |-> None,
     description |-> None]

\* title, handle and available have no default
ProductRequired == {"title", "handle", "available"}

\* ProductSchema(**kw): the fields given, the defaults for the others; a
\* ValidationError when a required field is missing, when an image is not a
\* string or when a variant is not a dict.
ProductSchema(kw) ==
    LET given == kw @@ ProductDefaults
    IN  IF \/ ~(ProductRequired \subseteq DOMAIN kw)
           \/ \E i \in 1..Len(given.images) : ~IsStr(given.images[i])
           \/ \E i \in 1..Len(given.variants) : ~IsDict(given.variants[i])
        THEN Raised(ValidationErrorMsg)
        ELSE Returned([given EXCEPT !.images = [i \in 1..Len(@) |-> @[i].s]])

\* lines 93-95
ParseImages(pd) ==
    IF HasKey(pd, "images") /\ IsList(pd.fields.images)
    THEN LET dicts == SelectSeq(pd.fields.images.items, IsDict)
         IN  [i \in 1..Len(dicts) |-> Get(dicts[i], "src", JStr(<<>>))]
    ELSE <<>>

\* lines 98-100; variants[0].get raises when variants[0] is not a dict
PriceRaises(variants) ==
    Truthy(variants) /\ IsList(variants) /\ ~IsDict(variants.items[1])

ParsePrice(variants) ==
    IF Truthy(variants) /\ IsList(variants)
    THEN Some(PyStr(Get(variants.items[1], "price", JStr(<<"0">>))))
    ELSE None

\* tag.strip() for tag in s.split(',') if tag.strip()
SplitTags(s) ==
    LET parts    == Split(s, <<",">>)
        stripped == [i \in 1..Len(parts) |-> Strip(parts[i])]
        NonEmpty(x) == x # <<>>
    IN  SelectSeq(stripped, NonEmpty)

\* lines 102-107
ParseTags(pd) ==
    IF ~HasKey(pd, "tags") THEN <<>>
    ELSE IF IsStr(pd.fields.tags) THEN SplitTags(pd.fields.tags.s)
    ELSE IF IsList(pd.fields.tags)
         THEN [i \in 1..Len(pd.fields.tags.items) |-> PyStr(pd.fields.tags.items[i])]
    ELSE <<>>

\* line 114: `for variant in variants` raises when variants is not iterable
AvailableRaises(variants) == variants.t \in {"null", "num", "bool"}

\* iterating a str gives its characters and iterating a dict its keys: no dicts
ParseAvailable(variants) ==
    /\ IsList(variants)
    /\ \E i \in 1..Len(variants.items) :
          /\ IsDict(variants.items[i])
          /\ Truthy(Get(variants.items[i], "available", JBool(FALSE)))

\* lines 93-121: the try block
ParseTry(pd) ==
    LET variants == Get(pd, "variants", JList(<<>>))
    IN  IF PriceRaises(variants) \/ AvailableRaises(variants)
        THEN Raised(<<"T", "y", "p", "e", "E", "r", "r", "o", "r">>)
        ELSE ProductSchema(
                [id           |-> Some(PyStr(Get(pd, "id", JStr(<<>>)))),
                 title        |-> OrEmpty(Get(pd, "title", JStr(<<>>))),
                 handle       |-> OrEmpty(Get(pd, "handle", JStr(<<>>))),
                 price        |-> ParsePrice(variants),
                 available    |-> ParseAvailable(variants),
                 images       |-> ParseImages(pd),
                 variants     |-> IF IsList(variants) THEN variants.items ELSE <<>>,
                 tags         |-> ParseTags(pd),
                 vendor       |-> Some(OrEmpty(Get(pd, "vendor", JStr(<<>>)))),
                 product_type |-> Some(OrEmpty(Get(pd, "product_type", JStr(<<>>)))),
                 description  |-> Some(OrEmpty(Get(pd, "body_html", JStr(<<>>))))])

\* lines 122-124: the except block builds the sentinel
ParseSentinel ==
    ProductSchema([title  |-> <<"P", "a", "r", "s", "e", " ", "E", "r", "r", "o", "r">>,
                   handle |-> <<"e", "r", "r", "o", "r">>])

parse_product(pd) ==
    LET try == ParseTry(pd)
    IN  IF try.pc = "raised" THEN ParseSentinel ELSE try

(***************************************************************************)
(* The normalizer on its own: one raw catalog record, one call.             *)
(***************************************************************************)

\* a field that is absent (<<>>) or present with a value (<<v>>)
Field(key, opt) == IF opt = <<>> THEN NoFields ELSE key :> opt[1]

VariantA == JObj([price |-> JStr(<<"1", "9", ".", "9", "9">>), available |-> JBool(TRUE)])
VariantNoPrice   == JObj([available |-> JBool(FALSE)])
VariantNullPrice == JObj([price |-> JNull, available |-> JBool(TRUE)])

VariantsOptions ==
    {<<>>, <<JNull>>, <<JList(<<>>)>>, <<JList(<<VariantA>>)>>,
     <<JList(<<VariantNoPrice, VariantA>>)>>, <<JList(<<VariantNullPrice>>)>>,
     <<JList(<<JNum(5)>>)>>, <<JList(<<VariantA, JNum(5)>>)>>,
     <<VariantA>>, <<JNum(5)>>, <<JStr(<<"x">>)>>}

TagsOptions ==
    {<<>>, <<JNull>>, <<JStr(<<"a", ",", " ", "b", ",", ",", "c", " ">>)>>,
     <<JList(<<JStr(<<"a">>), JNum(7)>>)>>, <<JObj([a |-> JNum(1)])>>, <<JNum(3)>>}

HandleOptions == {<<>>, <<JNull>>, <<JStr(<<"a">>)>>}

ImagesOptions ==
    {<<>>, <<JList(<<JObj([src |-> JStr(<<"u">>)]), JStr(<<"v">>), JObj(NoFields)>>)>>}

RawRecords ==
    {JObj(Field("id", <<JNum(42)>>) @@ Field("title", h) @@ Field("handle", h)
          @@ Field("variants", v) @@ Field("tags", t) @@ Field("images", i)) :
        v \in VariantsOptions, t \in TagsOptions, h \in HandleOptions, i \in ImagesOptions}

InitParse ==
    /\ norm \in {[pc |-> "call", raw |-> r] : r \in RawRecords}
    /\ fetch = Idle /\ pager = Idle /\ matcher = Idle /\ run = Idle
    /\ probe = Idle /\ linker = Idle /\ analysis = Idle

\* parse_product(raw)
ParseRecord ==
    /\ norm.pc = "call"
    /\ norm' = parse_product(norm.raw) @@ [raw |-> norm.raw]
    /\ UNCHANGED <<fetch, pager, matcher, run, probe, linker, analysis>>

NextParse == ParseRecord

SpecParse == InitParse /\ [][NextParse]_vars

\* a list of strings, each a sequence of characters
IsStringList(l) ==
    \A i \in 1..Len(l) : \A j \in 1..Len(l[i]) : l[i][j] \in STRING

\* C1: for every raw record parse_product returns a product, never raises, and
\* the product's tags is a list of strings.
C1_NormalizerTotal ==
    norm.pc \notin {"idle", "call"} =>
        /\ norm.pc = "returned"
        /\ IsStringList(norm.val.tags)

(***************************************************************************)
(* get_products_json: the catalog endpoint, page by page.  The body of a    *)
(* response is the value response.json() gives; an outcome [kind |-> "exc"] *)
(* is an exception raised inside the try block (the GET, or a body that is  *)
(* not JSON).  The endpoint is a script, as for fetch_url.                  *)
(***************************************************************************)

\* limit=250, and the length below which a page is the last one
PageSize == 250

\* {"products": items}
PageOf(items) == Resp(200, JObj([products |-> JList(items)]))

\* line 80: len(page_products) < 250
IsLastPage_inclusive(n) == n <= PageSize
IsLastPage_never(n) == FALSE
IsLastPage(n) == n < PageSize

PagerStart(script) ==
    [pc |-> "loop", page |-> 1, products |-> <<>>, script |-> script, reqs |-> <<>>]

\* the loop body without its try/except: a failed request leaves the call
PagerStep_nocatch(st) ==
    LET o    == st.script[Len(st.reqs) + 1]
        s1   == [st EXCEPT !.reqs = Append(@, st.page)]
        stop == [s1 EXCEPT !.pc = "returned"]
        fail == [s1 EXCEPT !.pc = "raised", !.products = <<>>]
    IN  IF o.kind = "exc" THEN fail
        ELSE IF o.status # 200 THEN stop
        ELSE IF ~IsDict(o.body) THEN fail
        ELSE LET page_products == Get(o.body, "products", JList(<<>>))
             IN  IF ~Truthy(page_products) THEN stop
                 ELSE LET s2 == [s1 EXCEPT !.products = @ \o page_products.items,
                                           !.page = @ + 1]
                      IN  IF IsLastPage(Len(page_products.items))
                          THEN [s2 EXCEPT !.pc = "returned"]
                          ELSE s2

\* One iteration of the while loop: the GET of the current page (logged by its
\* page number) and what the code does with its outcome.
PagerStep(st) ==
    LET o    == st.script[Len(st.reqs) + 1]
        s1   == [st EXCEPT !.reqs = Append(@, st.page)]
        stop == [s1 EXCEPT !.pc = "returned"]
    IN  IF o.kind = "exc" THEN stop
        ELSE IF o.status # 200 THEN stop
        ELSE IF ~IsDict(o.body) THEN stop        \* data.get raises, caught
        ELSE LET page_products == Get(o.body, "products", JList(<<>>))
             IN  IF ~Truthy(page_products) THEN stop
                 ELSE LET s2 == [s1 EXCEPT !.products = @ \o page_products.items,
                                           !.page = @ + 1]
                      IN  IF IsLastPage(Len(page_products.items))
                          THEN [s2 EXCEPT !.pc = "returned"]
                          ELSE s2

\* the whole call, against a script long enough for it to end
RECURSIVE PagerRun(_)
PagerRun(st) ==
    IF st.pc # "loop" \/ Len(st.reqs) >= Len(st.script) THEN st
    ELSE PagerRun(PagerStep(st))

get_products_json(script) == PagerRun(PagerStart(script))

(***************************************************************************)
(* The paginator on its own: every script of page outcomes.                 *)
(***************************************************************************)

\* how many page requests a run of the model may make
MaxPages == 3

\* a well-formed record of the catalog
Rec(h) ==
    JObj([id |-> JNum(42), title |-> JStr(h), handle |-> JStr(h),
          variants |-> JList(<<VariantA>>), tags |-> JStr(<<"x", ",", "y">>)])

\* n records, their handles cycling through a..j
RecordsPage(n) == [i \in 1..n |-> Rec(<<LowerCase[((i - 1) % 10) + 1]>>)]

FullPage  == PageOf(RecordsPage(PageSize))
EmptyPage == PageOf(<<>>)

PageOutcomes ==
    {FullPage, EmptyPage, PageOf(RecordsPage(37)), PageOf(RecordsPage(PageSize - 1)),
     PageOf(RecordsPage(1)), Resp(200, JObj(NoFields)), Resp(200, JList(<<>>)),
     Resp(503, JNull), Resp(429, JNull), ConnError}

PageScripts == [1..MaxPages -> PageOutcomes]

InitPages ==
    /\ pager \in {PagerStart(s) : s \in PageScripts}
    /\ fetch = Idle /\ norm = Idle /\ matcher = Idle /\ run = Idle
    /\ probe = Idle /\ linker = Idle /\ analysis = Idle

\* lines 69-86: one pass through the loop body
PageRequest ==
    /\ pager.pc = "loop"
    /\ Len(pager.reqs) < MaxPages
    /\ pager' = PagerStep(pager)
    /\ UNCHANGED <<fetch, norm, matcher, run, probe, linker, analysis>>

NextPages == PageRequest

SpecPages == InitPages /\ [][NextPages]_vars

\* the first k outcomes of the script are full pages
FullPages(script, k) == \A i \in 1..k : script[i] = FullPage

\* a page of n records with 0 < n < 250
IsShortPage(o) ==
    /\ IsOk(o) /\ IsDict(o.body) /\ HasKey(o.body, "products")
    /\ IsList(o.body.fields.products)
    /\ Len(o.body.fields.products.items) \in 1..(PageSize - 1)

\* C3: pagination stops after a bounded number of page requests even when
\* every page is full: once MaxPages full pages have been answered, the call
\* has returned.
C3_PaginationBounded ==
    (FullPages(pager.script, MaxPages) /\ Len(pager.reqs) = MaxPages)
        => pager.pc = "returned"

\* C6: against full pages for pages 1..K and an empty page K+1 the requests are
\* for pages 1, 2, ... in that order, and the call returns exactly K*250
\* records after exactly K+1 requests.
C6_PaginationExhaustion ==
    \A k \in 0..(MaxPages - 1) :
        (FullPages(pager.script, k) /\ pager.script[k + 1] = EmptyPage) =>
            /\ pager.reqs = [i \in 1..Len(pager.reqs) |-> i]
            /\ Len(pager.reqs) <= k + 1
            /\ pager.pc = "loop" => Len(pager.reqs) <= k
            /\ pager.pc = "returned" =>
                  /\ Len(pager.products) = k * 250
                  /\ pager.reqs = [i \in 1..(k + 1) |-> i]

C6_Witness ==
    /\ FullPages(pager.script, 2) /\ pager.script[3] = EmptyPage
    /\ pager.pc = "returned"
    /\ Len(pager.products) = 500
    /\ pager.reqs = <<1, 2, 3>>

\* C7: a page of n records, 0 < n < 250, after K full pages is included in the
\* result and is the last page requested: K*250 + n records, K+1 requests.
C7_LastPageShortcut ==
    \A k \in 0..(MaxPages - 1) :
        (FullPages(pager.script, k) /\ IsShortPage(pager.script[k + 1])) =>
            /\ Len(pager.reqs) <= k + 1
            /\ pager.pc = "loop" => Len(pager.reqs) <= k
            /\ pager.pc = "returned" =>
                  /\ Len(pager.reqs) = k + 1
                  /\ pager.products =
                        SubSeq(pager.products, 1, k * PageSize)
                            \o pager.script[k + 1].body.fields.products.items
                  /\ Len(pager.products) =
                        k * 250 + Len(pager.script[k + 1].body.fields.products.items)

C7_Witness ==
    /\ pager.script[1] = FullPage
    /\ pager.script[2] = PageOf(RecordsPage(37))
    /\ pager.pc = "returned"
    /\ Len(pager.products) = 287
    /\ pager.reqs = <<1, 2>>

(***************************************************************************)
(* extract_hero_products.  Python values that the code puts in a set carry  *)
(* their type, as the JSON values do: a str is hashable, a list is not.     *)
(***************************************************************************)

ProductsMarker == <<"/", "p", "r", "o", "d", "u", "c", "t", "s", "/">>

\* product_links[:10]
HeroLinkLimit == 10

\* len(hero_products) >= 8
HeroLimit == 8

\* soup.find_all('a', href=re.compile(r'/products/'))
IsProductAnchor(n) ==
    n.tag = "a" /\ "href" \in DOMAIN n /\ Contains(n.href, ProductsMarker)

\* l[-1]
Last(l) == l[Len(l)]

\* l[:n]
Prefix(l, n) == SubSeq(l, 1, IF Len(l) < n THEN Len(l) ELSE n)

\* line 138: href.split('/products/')[-1].split('?')[0].split('#'), a list
HandleOf(href) ==
    JList(Split(Split(Last(Split(href, ProductsMarker)), <<"?">>)[1], <<"#">>))

\* hash(v) raises for a list or a dict
Hashable(v) == v.t \notin {"list", "obj"}

\* lines 141-145: the catalog entries whose handle is in the set, in catalog
\* order; the loop is left once it holds 8
HeroLoop(products, handles) ==
    LET InSet(product) == JStr(product.handle) \in handles
    IN  Prefix(SelectSeq(products, InSet), HeroLimit)

\* the function with an except block that falls back to the whole catalog
extract_hero_products_fallback(html, all_products) ==
    LET links   == Prefix(SelectSeq(html, IsProductAnchor), HeroLinkLimit)
        handles == [i \in 1..Len(links) |-> HandleOf(links[i].href)]
    IN  IF \E i \in 1..Len(handles) : ~Hashable(handles[i])
        THEN all_products
        ELSE HeroLoop(all_products, {handles[i] : i \in 1..Len(handles)})

\* lines 128-150; product_handles.add(handle) raises TypeError for a handle
\* that is not hashable, and the except block returns []
extract_hero_products(html, all_products) ==
    LET links   == Prefix(SelectSeq(html, IsProductAnchor), HeroLinkLimit)
        handles == [i \in 1..Len(links) |-> HandleOf(links[i].href)]
    IN  IF \E i \in 1..Len(handles) : ~Hashable(handles[i])
        THEN <<>>
        ELSE HeroLoop(all_products, {handles[i] : i \in 1..Len(handles)})

(***************************************************************************)
(* Sample homepages and catalogs.                                           *)
(***************************************************************************)

\* <p>Powered by Shopify</p> <a href="/products/a"> <a href="/collections/all">
\* <a href="/pages/contact">
HomeShop ==
    <<Text(<<"P", "o", "w", "e", "r", "e", "d", " ", "b", "y", " ", "S",
             "h", "o", "p", "i", "f", "y">>),
      Anchor(<<"/", "p", "r", "o", "d", "u", "c", "t", "s", "/", "a">>),
      Anchor(<<"/", "c", "o", "l", "l", "e", "c", "t", "i", "o", "n", "s",
               "/", "a", "l", "l">>),
      Anchor(<<"/", "p", "a", "g", "e", "s", "/", "c", "o", "n", "t", "a",
               "c", "t">>)>>

\* no marker; <a href="/products/b?variant=1#top">
\* <a href="https://shop.example/collections/c/products/a"> <a>
HomePlain ==
    <<Text(<<"W", "e", "l", "c", "o", "m", "e">>),
      Anchor(<<"/", "p", "r", "o", "d", "u", "c", "t", "s", "/", "b", "?",
               "v", "a", "r", "i", "a", "n", "t", "=", "1", "#", "t", "o",
               "p">>),
      BareAnchor,
      Anchor(<<"h", "t", "t", "p", "s", ":", "/", "/", "s", "h", "o", "p",
               ".", "e", "x", "a", "m", "p", "l", "e", "/", "c", "o", "l",
               "l", "e", "c", "t", "i", "o", "n", "s", "/", "c", "/", "p",
               "r", "o", "d", "u", "c", "t", "s", "/", "a">>)>>

\* the marker only in a script URL, no product link
HomeCdn ==
    <<Anchor(<<"h", "t", "t", "p", "s", ":", "/", "/", "c", "d", "n", ".",
               "s", "h", "o", "p", "i", "f", "y", ".", "c", "o", "m", "/",
               "s", "/", "a", "p", "p", ".", "j", "s">>),
      Text(<<"W", "e", "l", "c", "o", "m", "e">>)>>

\* no marker, no link
HomeBare == <<Text(<<"W", "e", "l", "c", "o", "m", "e">>)>>

\* /products/<c> for a one-letter handle c
ProductHref(c) == ProductsMarker \o <<c>>

\* 11 product links: to k, nine times to a collection-less /products/z, and
\* the 11th to a
HomeManyLinks ==
    <<Text(<<"P", "o", "w", "e", "r", "e", "d", " ", "b", "y", " ", "S",
             "h", "o", "p", "i", "f", "y">>),
      Anchor(ProductHref("k"))>>
    \o [i \in 1..9 |-> Anchor(ProductHref("z"))]
    \o <<Anchor(ProductHref("a"))>>

Homepages == {HomeShop, HomePlain, HomeCdn, HomeBare, HomeManyLinks, EmptyHtml}

\* the normalized products of well-formed records
Normalized(records) == [i \in 1..Len(records) |-> parse_product(records[i]).val]

\* how many records the sample catalogs of the matcher hold at most
MaxCatalog == 12

Catalogs ==
    {Normalized(RecordsPage(n)) : n \in 0..MaxCatalog}
    \cup {Normalized([i \in 1..n |-> Rec(<<"a">>)]) : n \in 1..MaxCatalog}

InitHero ==
    /\ matcher \in {[pc |-> "call", html |-> h, catalog |-> c] :
                        h \in Homepages, c \in Catalogs}
    /\ fetch = Idle /\ pager = Idle /\ norm = Idle /\ run = Idle
    /\ probe = Idle /\ linker = Idle /\ analysis = Idle

\* extract_hero_products(html, catalog)
MatchHero ==
    /\ matcher.pc = "call"
    /\ matcher' = [matcher EXCEPT !.pc = "returned"]
                      @@ [val |-> extract_hero_products(matcher.html, matcher.catalog)]
    /\ UNCHANGED <<fetch, pager, norm, run, probe, linker, analysis>>

NextHero == MatchHero

SpecHero == InitHero /\ [][NextHero]_vars

\* the handle a product link names: the path segment after /products/,
\* without query string and fragment
LinkedHandle(href) ==
    Split(Split(Last(Split(href, ProductsMarker)), <<"?">>)[1], <<"#">>)[1]

\* the handles of the first 10 product links of a homepage
LinkedHandles(html) ==
    LET links == Prefix(SelectSeq(html, IsProductAnchor), HeroLinkLimit)
    IN  {LinkedHandle(links[i].href) : i \in 1..Len(links)}

\* the catalog entries with a linked handle, in catalog order, at most 8
LinkedProducts(html, catalog) ==
    LET Linked(p) == p.handle \in LinkedHandles(html)
    IN  Prefix(SelectSeq(catalog, Linked), HeroLimit)

\* C2: extract_hero_products returns exactly the catalog entries whose handle
\* is named by one of the first 10 product links of the homepage, in catalog
\* order, at most 8 of them.
C2_HeroSelection ==
    matcher.pc = "returned" =>
        matcher.val = LinkedProducts(matcher.html, matcher.catalog)

(***************************************************************************)
(* urljoin, extract_policies and extract_important_links.                   *)
(***************************************************************************)

SchemeSep == <<":", "/", "/">>

\* scheme://host of a URL that has a scheme
Origin(url) ==
    LET i    == Find(url, SchemeSep)
        rest == DropFirst(url, i + 2)
        j    == Find(rest, <<"/">>)
    IN  IF j = 0 THEN url ELSE SubSeq(url, 1, i + 2 + j - 1)

\* the index of the last "/" of s, 0 when it has none
LastSlash(s) ==
    LET hits == {i \in 1..Len(s) : s[i] = "/"}
    IN  IF hits = {} THEN 0 ELSE CHOOSE i \in hits : \A j \in hits : j <= i

\* urljoin(base, ref) for a base with a scheme and a ref that is a URL with a
\* scheme, an absolute path, or a relative path without dot segments
UrlJoin(base, ref) ==
    IF ref = <<>> THEN base
    ELSE IF Contains(ref, SchemeSep) THEN ref
    ELSE IF Head(ref) = "/" THEN Origin(base) \o ref
    ELSE LET path == DropFirst(base, Len(Origin(base)))
         IN  Origin(base) \o (IF path = <<>> THEN <<"/">>
                              ELSE SubSeq(path, 1, LastSlash(path))) \o ref

\* lines 155-161, in the order of the dict
PolicyUrls ==
    <<[kind |-> "privacy_policy",
       paths |->
         <<<<"/", "p", "a", "g", "e", "s", "/", "p", "r", "i", "v", "a", "c",
             "y", "-", "p", "o", "l", "i", "c", "y">>,
           <<"/", "p", "o", "l", "i", "c", "i", "e", "s", "/", "p", "r", "i",
             "v", "a", "c", "y", "-", "p", "o", "l", "i", "c", "y">>,
           <<"/", "p", "r", "i", "v", "a", "c", "y">>>>],
      [kind |-> "return_policy",
       paths |->
         <<<<"/", "p", "a", "g", "e", "s", "/", "r", "e", "t", "u", "r", "n",
             "-", "p", "o", "l", "i", "c", "y">>,
           <<"/", "p", "o", "l", "i", "c", "i", "e", "s", "/", "r", "e", "f",
             "u", "n", "d", "-", "p", "o", "l", "i", "c", "y">>,
           <<"/", "r", "e", "t", "u", "r", "n", "s">>>>],
      [kind |-> "refund_policy",
       paths |->
         <<<<"/", "p", "a", "g", "e", "s", "/", "r", "e", "f", "u", "n", "d",
             "-", "p", "o", "l", "i", "c", "y">>,
           <<"/", "p", "o", "l", "i", "c", "i", "e", "s", "/", "r", "e", "f",
             "u", "n", "d", "-", "p", "o", "l", "i", "c", "y">>,
           <<"/", "r", "e", "f", "u", "n", "d", "s">>>>],
      [kind |-> "terms_of_service",
       paths |->
         <<<<"/", "p", "a", "g", "e", "s", "/", "t", "e", "r", "m", "s", "-",
             "o", "f", "-", "s", "e", "r", "v", "i", "c", "e">>,
           <<"/", "p", "o", "l", "i", "c", "i", "e", "s", "/", "t", "e", "r",
             "m", "s", "-", "o", "f", "-", "s", "e", "r", "v", "i", "c", "e">>,
           <<"/", "t", "e", "r", "m", "s">>>>],
      [kind |-> "shipping_policy",
       paths |->
         <<<<"/", "p", "a", "g", "e", "s", "/", "s", "h", "i", "p", "p", "i",
             "n", "g", "-", "p", "o", "l", "i", "c", "y">>,
           <<"/", "p", "o", "l", "i", "c", "i", "e", "s", "/", "s", "h", "i",
             "p", "p", "i", "n", "g", "-", "p", "o", "l", "i", "c", "y">>,
           <<"/", "s", "h", "i", "p", "p", "i", "n", "g">>>>]>>

PolicyKinds == {PolicyUrls[k].kind : k \in 1..Len(PolicyUrls)}

\* PolicyInfo()
PolicyInfo == [kind \in PolicyKinds |-> None]

\* lines 164-172 without the break of line 170: every candidate is fetched and
\* the last one that succeeds is recorded
RECURSIVE ProbePaths_nobreak(_, _, _, _)
ProbePaths_nobreak(base_url, paths, scripts, i) ==
    IF i > Len(paths) THEN [url |-> None, fetched |-> <<>>]
    ELSE LET full_url == UrlJoin(base_url, paths[i])
             r        == fetch_url(scripts[i])
             rest     == ProbePaths_nobreak(base_url, paths, scripts, i + 1)
         IN  [url     |-> IF rest.url # None THEN rest.url
                          ELSE IF r.status = 200 /\ r.body # EmptyHtml
                          THEN Some(full_url) ELSE None,
              fetched |-> <<full_url>> \o rest.fetched]

\* lines 164-172 for one policy kind, from its i-th candidate on: the URL
\* recorded, if any, and the URLs fetched.  scripts[i] is what the endpoint
\* answers to the GETs of the i-th candidate.
RECURSIVE ProbePaths(_, _, _, _)
ProbePaths(base_url, paths, scripts, i) ==
    IF i > Len(paths) THEN [url |-> None, fetched |-> <<>>]
    ELSE LET full_url == UrlJoin(base_url, paths[i])
             r        == fetch_url(scripts[i])
         IN  IF r.status = 200 /\ r.body # EmptyHtml
             THEN [url |-> Some(full_url), fetched |-> <<full_url>>]
             ELSE LET rest == ProbePaths(base_url, paths, scripts, i + 1)
                  IN  [rest EXCEPT !.fetched = <<full_url>> \o @]

\* the URLs fetched for the kinds k.. of the table, in order
RECURSIVE PolicyFetches(_, _, _)
PolicyFetches(base_url, site, k) ==
    IF k > Len(PolicyUrls) THEN <<>>
    ELSE ProbePaths(base_url, PolicyUrls[k].paths, site[PolicyUrls[k].kind], 1).fetched
            \o PolicyFetches(base_url, site, k + 1)

\* lines 152-174; site[kind][i] is the script of the kind's i-th candidate
extract_policies(base_url, site) ==
    [policies |->
        [kind \in PolicyKinds |->
            LET k == CHOOSE k \in 1..Len(PolicyUrls) : PolicyUrls[k].kind = kind
            IN  ProbePaths(base_url, PolicyUrls[k].paths, site[kind], 1).url],
     fetched |-> PolicyFetches(base_url, site, 1)]

\* lines 182-190, in the order of the dict
LinkPatterns ==
    <<[name |-> "Contact Us",
       patterns |->
         <<<<"/", "p", "a", "g", "e", "s", "/", "c", "o", "n", "t", "a", "c",
             "t">>,
           <<"/", "c", "o", "n", "t", "a", "c", "t">>,
           <<"/", "c", "o", "n", "t", "a", "c", "t", "-", "u", "s">>>>],
      [name |-> "About Us",
       patterns |->
         <<<<"/", "p", "a", "g", "e", "s", "/", "a", "b", "o", "u", "t">>,
           <<"/", "a", "b", "o", "u", "t">>,
           <<"/", "a", "b", "o", "u", "t", "-", "u", "s">>>>],
      [name |-> "Order Tracking",
       patterns |->
         <<<<"/", "a", "c", "c", "o", "u", "n", "t", "/", "l", "o", "g", "i",
             "n">>,
           <<"/", "t", "r", "a", "c", "k">>,
           <<"/", "t", "r", "a", "c", "k", "i", "n", "g">>>>],
      [name |-> "Blog",
       patterns |->
         <<<<"/", "b", "l", "o", "g", "s">>,
           <<"/", "b", "l", "o", "g">>>>],
      [name |-> "Support",
       patterns |->
         <<<<"/", "p", "a", "g", "e", "s", "/", "s", "u", "p", "p", "o", "r",
             "t">>,
           <<"/", "s", "u", "p", "p", "o", "r", "t">>,
           <<"/", "h", "e", "l", "p">>>>],
      [name |-> "Size Guide",
       patterns |->
         <<<<"/", "p", "a", "g", "e", "s", "/", "s", "i", "z", "e", "-", "g",
             "u", "i", "d", "e">>,
           <<"/", "s", "i", "z", "e", "-", "g", "u", "i", "d", "e">>>>],
      [name |-> "FAQ",
       patterns |->
         <<<<"/", "p", "a", "g", "e", "s", "/", "f", "a", "q">>,
           <<"/", "f", "a", "q">>,
           <<"/", "p", "a", "g", "e", "s", "/", "f", "r", "e", "q", "u", "e",
             "n", "t", "l", "y", "-", "a", "s", "k", "e", "d", "-", "q", "u",
             "e", "s", "t", "i", "o", "n", "s">>>>]>>

\* soup.find('a', href=re.compile(pattern, re.IGNORECASE)): the index of the
\* first anchor whose href the pattern matches somewhere, 0 when there is none
FindAnchor(html, pattern) ==
    LET hits == {i \in 1..Len(html) :
                    /\ html[i].tag = "a"
                    /\ "href" \in DOMAIN html[i]
                    /\ Contains(Lower(html[i].href), Lower(pattern))}
    IN  IF hits = {} THEN 0 ELSE CHOOSE i \in hits : \A j \in hits : i <= j

\* lines 193-200 for one category, from its j-th pattern on
RECURSIVE LinkFor(_, _, _, _)
LinkFor(html, base_url, patterns, j) ==
    IF j > Len(patterns) THEN None
    ELSE LET i == FindAnchor(html, patterns[j])
         IN  IF i # 0 /\ html[i].href # <<>>
             THEN Some(UrlJoin(base_url, html[i].href))
             ELSE LinkFor(html, base_url, patterns, j + 1)

\* lines 176-205: the dict of the categories that have a link
RECURSIVE LinksFrom(_, _, _)
LinksFrom(html, base_url, k) ==
    IF k > Len(LinkPatterns) THEN NoFields
    ELSE LET found == LinkFor(html, base_url, LinkPatterns[k].patterns, 1)
         IN  Field(LinkPatterns[k].name, found) @@ LinksFrom(html, base_url, k + 1)

extract_important_links(html, base_url) == LinksFrom(html, base_url, 1)

(***************************************************************************)
(* GroqService, as far as the scraper depends on it.                        *)
(***************************************************************************)

\* extract_brand_info returns json.loads of the completion, whatever JSON value
\* that is, or {} when the call or the parsing fails.
BrandFull ==
    JObj([brand_name        |-> JStr(<<"A", "c", "m", "e">>),
          brand_description |-> JStr(<<"s", "h", "o", "e", "s">>),
          contact_emails    |-> JList(<<JStr(<<"a", "@", "b">>)>>),
          contact_phones    |-> JList(<<>>),
          social_handles    |-> JObj([instagram |-> JStr(<<"a", "c", "m", "e">>),
                                      twitter   |-> JNull])])

BrandInfos ==
    {BrandFull, JObj(NoFields), JList(<<>>),
     JObj([brand_name |-> JNull, social_handles |-> JNull])}

\* extract_faqs: line 82 reads response.choices.message, choices being a list,
\* so the body of the try block always raises and the bare except returns [].
extract_faqs(html_content) == <<>>

(***************************************************************************)
(* BrandInsights and its parts (models/schemas.py).                         *)
(***************************************************************************)

ContactInfo == [emails |-> <<>>, phones |-> <<>>, addresses |-> <<>>]

SocialPlatforms == {"instagram", "facebook", "twitter", "tiktok", "youtube", "linkedin"}

SocialHandles == [platform \in SocialPlatforms |-> None]

BrandInsightsDefaults ==
    [brand_name |-> None, brand_description |-> None, product_catalog |-> <<>>,
     hero_products |-> <<>>, contact_info |-> ContactInfo,
     social_handles |-> SocialHandles, policies |-> PolicyInfo, faqs |-> <<>>,
     important_links |-> NoFields, total_products |-> 0, status |-> "success",
     error_message |-> None]

\* BrandInsights(**kw): the fields given, the defaults for the others
BrandInsights(kw) == kw @@ BrandInsightsDefaults

\* a JSON value as an Optional[str] field: None for null, the string otherwise
IsOptStr(v) == v.t \in {"null", "str"}
OptStr(v)   == IF v.t = "null" THEN None ELSE Some(v.s)

\* a JSON value as a List[str] field
IsStrList(v) == IsList(v) /\ \A i \in 1..Len(v.items) : IsStr(v.items[i])
StrList(v)   == [i \in 1..Len(v.items) |-> v.items[i].s]

\* type(v).__name__
TypeName(v) ==
    CASE v.t = "null" -> <<"N", "o", "n", "e", "T", "y", "p", "e">>
      [] v.t = "str"  -> <<"s", "t", "r">>
      [] v.t = "num"  -> <<"i", "n", "t">>
      [] v.t = "bool" -> <<"b", "o", "o", "l">>
      [] v.t = "list" -> <<"l", "i", "s", "t">>
      [] v.t = "obj"  -> <<"d", "i", "c", "t">>

\* str(e) of the AttributeError of v.get
AttributeErrorMsg(v) ==
    <<"'">> \o TypeName(v) \o
    <<"'", " ", "o", "b", "j", "e", "c", "t", " ", "h", "a", "s", " ", "n",
      "o", " ", "a", "t", "t", "r", "i", "b", "u", "t", "e", " ", "'", "g",
      "e", "t", "'">>

BrandValidationErrorMsg ==
    <<"1", " ", "v", "a", "l", "i", "d", "a", "t", "i", "o", "n", " ", "e",
      "r", "r", "o", "r", " ", "f", "o", "r", " ", "B", "r", "a", "n", "d",
      "I", "n", "s", "i", "g", "h", "t", "s">>

(***************************************************************************)
(* scrape_shopify_store.                                                    *)
(***************************************************************************)

HttpsScheme == <<"h", "t", "t", "p", "s", ":", "/", "/">>
HttpScheme  == <<"h", "t", "t", "p", ":", "/", "/">>

\* lines 212-213
NormalizeUrl(url) ==
    IF StartsWith(url, HttpScheme) \/ StartsWith(url, HttpsScheme) THEN url
    ELSE HttpsScheme \o url

\* f"Website not accessible. Status code: {status}"
NotAccessibleMsg(status) ==
    <<"W", "e", "b", "s", "i", "t", "e", " ", "n", "o", "t", " ", "a", "c",
      "c", "e", "s", "s", "i", "b", "l", "e", ".", " ", "S", "t", "a", "t",
      "u", "s", " ", "c", "o", "d", "e", ":", " ">>
    \o IntToStr(status)

NotShopifyMsg ==
    <<"N", "o", "t", " ", "a", " ", "S", "h", "o", "p", "i", "f", "y", " ",
      "s", "t", "o", "r", "e", " ", "o", "r", " ", "p", "r", "o", "d", "u",
      "c", "t", "s", " ", "n", "o", "t", " ", "a", "c", "c", "e", "s", "s",
      "i", "b", "l", "e">>

\* lines 220-224, 232-236, 308-312
ErrorInsights(url, msg) ==
    BrandInsights([website_url |-> url, status |-> "error", error_message |-> Some(msg)])

\* line 229, negated: the page shows a platform marker
HasShopifyMarker(html) ==
    \/ HtmlLowerContains(html, <<"s", "h", "o", "p", "i", "f", "y">>)
    \/ HtmlContains(html, <<"c", "d", "n", ".", "s", "h", "o", "p", "i", "f",
                            "y", ".", "c", "o", "m">>)

\* line 243: the list comprehension raises what the first failing record raises
ParseAll(records) ==
    LET each   == [i \in 1..Len(records) |-> parse_product(records[i])]
        failed == {i \in 1..Len(records) : each[i].pc = "raised"}
    IN  IF failed = {} THEN Returned([i \in 1..Len(records) |-> each[i].val])
        ELSE each[CHOOSE i \in failed : \A j \in failed : i <= j]

\* lines 260-261
BuildFaqs(faqs_data) ==
    LET Usable(faq) == Truthy(Get(faq, "question", JNull)) /\ Truthy(Get(faq, "answer", JNull))
        kept == SelectSeq(faqs_data, Usable)
    IN  [i \in 1..Len(kept) |-> [question |-> kept[i].fields.question.s,
                                 answer   |-> kept[i].fields.answer.s]]

\* lines 291-304 with total_products taken from the hero products
SuccessInsights_herocount(st, contact_info, social_handles, important_links) ==
    BrandInsights(
        [website_url       |-> st.url,
         brand_name        |-> OptStr(Get(st.brand_info, "brand_name", JStr(<<>>))),
         brand_description |-> OptStr(Get(st.brand_info, "brand_description", JStr(<<>>))),
         product_catalog   |-> st.all_products,
         hero_products     |-> st.hero_products,
         contact_info      |-> contact_info,
         social_handles    |-> social_handles,
         policies          |-> st.policies,
         faqs              |-> st.faqs,
         important_links   |-> important_links,
         total_products    |-> Len(st.hero_products),
         status            |-> "success"])

\* lines 291-304
SuccessInsights(st, contact_info, social_handles, important_links) ==
    BrandInsights(
        [website_url       |-> st.url,
         brand_name        |-> OptStr(Get(st.brand_info, "brand_name", JStr(<<>>))),
         brand_description |-> OptStr(Get(st.brand_info, "brand_description", JStr(<<>>))),
         product_catalog   |-> st.all_products,
         hero_products     |-> st.hero_products,
         contact_info      |-> contact_info,
         social_handles    |-> social_handles,
         policies          |-> st.policies,
         faqs              |-> st.faqs,
         important_links   |-> important_links,
         total_products    |-> Len(st.all_products),
         status            |-> "success"])

\* lines 269-304: links, contact info, social handles and the aggregate;
\* .get on a brand_info or a social_handles that is no dict raises, and so does
\* a field of the wrong type
Assemble(st) ==
    LET info == st.brand_info
        important_links == extract_important_links(st.html, st.url)
    IN  IF ~IsDict(info) THEN Raised(AttributeErrorMsg(info))
        ELSE LET emails      == Get(info, "contact_emails", JList(<<>>))
                 phones      == Get(info, "contact_phones", JList(<<>>))
                 social_data == Get(info, "social_handles", JObj(NoFields))
             IN  IF ~IsStrList(emails) \/ ~IsStrList(phones)
                 THEN Raised(BrandValidationErrorMsg)
                 ELSE IF ~IsDict(social_data) THEN Raised(AttributeErrorMsg(social_data))
                 ELSE IF \/ \E p \in SocialPlatforms : ~IsOptStr(Get(social_data, p, JNull))
                         \/ ~IsOptStr(Get(info, "brand_name", JStr(<<>>)))
                         \/ ~IsOptStr(Get(info, "brand_description", JStr(<<>>)))
                      THEN Raised(BrandValidationErrorMsg)
                 ELSE Returned(SuccessInsights(
                        st,
                        [ContactInfo EXCEPT !.emails = StrList(emails),
                                            !.phones = StrList(phones)],
                        [p \in SocialPlatforms |-> OptStr(Get(social_data, p, JNull))],
                        important_links))

(***************************************************************************)
(* One request to POST /api/v1/insights: get_brand_insights around          *)
(* scrape_shopify_store, one step per awaited call.  run.calls logs the     *)
(* calls that leave the process, run.exit the return statement taken and    *)
(* run.endpoint what the catalog endpoint answered to the last              *)
(* get_products_json.                                                       *)
(***************************************************************************)

SiteUrl ==
    <<"h", "t", "t", "p", "s", ":", "/", "/", "s", "h", "o", "p", ".", "e",
      "x", "a", "m", "p", "l", "e", "/">>

RunStart(url) ==
    [pc |-> "request", session |-> "none", url |-> url, calls |-> <<>>,
     html |-> EmptyHtml, status |-> 0, endpoint |-> <<>>,
     products_data |-> <<>>, all_products |-> <<>>,
     hero_products |-> <<>>, brand_info |-> JNull, faqs |-> <<>>,
     policies |-> PolicyInfo, exit |-> "none", http |-> 0,
     result |-> BrandInsights([website_url |-> url])]

\* the scrape returns `insights` through return statement `exit`
ScrapeReturns(st, exit, insights) ==
    [st EXCEPT !.pc = "scraped", !.exit = exit, !.result = insights]

\* the exception leaves scrape_shopify_store
ScrapeCatches_propagates(st, msg) == [st EXCEPT !.pc = "raised", !.exit = "exception"]

\* lines 306-312: the except block of scrape_shopify_store
ScrapeCatches(st, msg) == ScrapeReturns(st, "exception", ErrorInsights(st.url, msg))

\* what the endpoint answers to the GETs of the homepage
HomeScripts ==
    {<<Resp(200, h), ConnError, ConnError>> : h \in Homepages}
    \cup {<<Resp(429, EmptyHtml), Resp(200, h), ConnError>> : h \in {HomeShop, HomeBare}}
    \cup {<<Resp(403, SampleDoc), Resp(403, SampleDoc), Resp(403, SampleDoc)>>,
          <<ConnError, Resp(429, EmptyHtml), Resp(503, EmptyHtml)>>}

\* a record on which parse_product raises
RecBroken == JObj([id |-> JNum(7), handle |-> JStr(<<"b">>), variants |-> JNull])

\* what the catalog endpoint answers, page after page, until the call ends
CatalogScripts ==
    {<<EmptyPage>>, <<PageOf(RecordsPage(3))>>, <<PageOf(RecordsPage(12))>>,
     <<FullPage, PageOf(RecordsPage(37))>>, <<FullPage, ConnError>>,
     <<Resp(503, JNull)>>, <<ConnError>>,
     <<PageOf(<<Rec(<<"a">>), RecBroken, Rec(<<"k">>)>>)>>}

\* what the endpoint answers to the GETs of the FAQ page
FaqScripts ==
    {<<Resp(200, SampleDoc), ConnError, ConnError>>,
     <<Resp(404, SampleDoc), ConnError, Resp(404, SampleDoc)>>}

Found   == <<Resp(200, SampleDoc), ConnError, ConnError>>
Missing == <<Resp(404, EmptyHtml), Resp(404, EmptyHtml), Resp(404, EmptyHtml)>>
Blank   == <<Resp(200, EmptyHtml), ConnError, ConnError>>

\* what the endpoint answers for the candidates of each policy kind
PolicySites ==
    {[kind \in PolicyKinds |-> <<Missing, Missing, Missing>>],
     [kind \in PolicyKinds |-> <<Found, Missing, Missing>>],
     [kind \in PolicyKinds |->
        IF kind = "refund_policy" THEN <<Blank, Found, Found>>
        ELSE IF kind = "terms_of_service" THEN <<Missing, Missing, Found>>
        ELSE <<Missing, Missing, Missing>>]}

\* router lines 15-21: the handler normalizes the URL and opens the scraper
HandlerEnter ==
    /\ run.pc = "request"
    /\ run' = [run EXCEPT !.pc = "scrape", !.session = "open",
                          !.url = NormalizeUrl(@)]
    /\ UNCHANGED <<fetch, pager, norm, matcher, probe, linker, analysis>>

\* the homepage step without the status test of lines 219-224
HomepageStep_continues(st, script) ==
    LET url == NormalizeUrl(st.url)
        r   == fetch_url(script)
    IN  [st EXCEPT !.url = url, !.html = r.body, !.status = r.status,
                   !.calls = Append(@, "fetch_url:homepage"), !.pc = "validate"]

\* lines 210-226: the homepage
HomepageStep(st, script) ==
    LET url == NormalizeUrl(st.url)
        r   == fetch_url(script)
        s1  == [st EXCEPT !.url = url, !.html = r.body, !.status = r.status,
                          !.calls = Append(@, "fetch_url:homepage")]
    IN  IF r.status # 200
        THEN ScrapeReturns(s1, "inaccessible",
                           ErrorInsights(url, NotAccessibleMsg(r.status)))
        ELSE [s1 EXCEPT !.pc = "validate"]

\* lines 229-236: a page without a marker is probed through the catalog
ValidateStep(st, script) ==
    IF HasShopifyMarker(st.html) THEN [st EXCEPT !.pc = "catalog"]
    ELSE LET products_data == get_products_json(script).products
             s1 == [st EXCEPT !.calls = Append(@, "get_products_json:probe"),
                               !.endpoint = script]
         IN  IF products_data = <<>>
             THEN ScrapeReturns(s1, "not_shopify",
                                ErrorInsights(s1.url, NotShopifyMsg))
             ELSE [s1 EXCEPT !.pc = "catalog"]

\* lines 239-247: the catalog, its normalization and the hero products
CatalogStep(st, script) ==
    LET products_data == get_products_json(script).products
        parsed == ParseAll(products_data)
        s1     == [st EXCEPT !.calls = Append(@, "get_products_json"),
                             !.endpoint = script,
                             !.products_data = products_data]
    IN  IF parsed.pc = "raised" THEN ScrapeCatches(s1, parsed.exc)
        ELSE [s1 EXCEPT !.pc = "brand",
                        !.all_products = parsed.val,
                        !.hero_products = extract_hero_products(s1.html, parsed.val)]

\* line 250
BrandStep(st, info) ==
    [st EXCEPT !.pc = "faqs", !.brand_info = info,
               !.calls = Append(@, "groq:extract_brand_info")]

\* lines 254-262
FaqsStep(st, script) ==
    LET r        == fetch_url(script)
        faq_html == IF r.body = EmptyHtml THEN st.html ELSE r.body
    IN  [st EXCEPT !.pc = "policies",
                   !.faqs = BuildFaqs(extract_faqs(faq_html)),
                   !.calls = @ \o <<"fetch_url:faq", "groq:extract_faqs">>]

\* line 265
PoliciesStep(st, site) ==
    LET found == extract_policies(st.url, site)
    IN  [st EXCEPT !.pc = "assemble", !.policies = found.policies,
                   !.calls = @ \o [i \in 1..Len(found.fetched) |-> "fetch_url:policy"]]

\* lines 269-304, and 306-312 when they raise
AssembleStep(st) ==
    LET built == Assemble(st)
    IN  IF built.pc = "raised" THEN ScrapeCatches(st, built.exc)
        ELSE ScrapeReturns(st, "success", built.val)

ScrapeHomepage ==
    /\ run.pc = "scrape"
    /\ \E script \in HomeScripts : run' = HomepageStep(run, script)
    /\ UNCHANGED <<fetch, pager, norm, matcher, probe, linker, analysis>>

ScrapeValidate ==
    /\ run.pc = "validate"
    /\ \E script \in CatalogScripts : run' = ValidateStep(run, script)
    /\ UNCHANGED <<fetch, pager, norm, matcher, probe, linker, analysis>>

ScrapeCatalog ==
    /\ run.pc = "catalog"
    /\ \E script \in CatalogScripts : run' = CatalogStep(run, script)
    /\ UNCHANGED <<fetch, pager, norm, matcher, probe, linker, analysis>>

ScrapeBrand ==
    /\ run.pc = "brand"
    /\ \E info \in BrandInfos : run' = BrandStep(run, info)
    /\ UNCHANGED <<fetch, pager, norm, matcher, probe, linker, analysis>>

ScrapeFaqs ==
    /\ run.pc = "faqs"
    /\ \E script \in FaqScripts : run' = FaqsStep(run, script)
    /\ UNCHANGED <<fetch, pager, norm, matcher, probe, linker, analysis>>

ScrapePolicies ==
    /\ run.pc = "policies"
    /\ \E site \in PolicySites : run' = PoliciesStep(run, site)
    /\ UNCHANGED <<fetch, pager, norm, matcher, probe, linker, analysis>>

ScrapeAssemble ==
    /\ run.pc = "assemble"
    /\ run' = AssembleStep(run)
    /\ UNCHANGED <<fetch, pager, norm, matcher, probe, linker, analysis>>

NotAccessibleWords ==
    <<"n", "o", "t", " ", "a", "c", "c", "e", "s", "s", "i", "b", "l", "e">>

\* router line 25: "not accessible" in insights.error_message.lower()
IsInaccessible(error_message) == Contains(Lower(error_message), NotAccessibleWords)

\* router lines 24-33: the status code of the response
ResponseCode(insights) ==
    IF insights.status = "error"
    THEN IF IsInaccessible(insights.error_message[1]) THEN 401 ELSE 500
    ELSE 200

\* router lines 24-39 and scraper lines 30-32: the response, and the session
\* closed on the way out of the `async with`
HandlerRespond ==
    /\ run.pc = "scraped"
    /\ run' = [run EXCEPT !.pc = "responded", !.session = "closed",
                          !.http = ResponseCode(run.result)]
    /\ UNCHANGED <<fetch, pager, norm, matcher, probe, linker, analysis>>

Init ==
    /\ run = RunStart(SiteUrl)
    /\ fetch = Idle /\ pager = Idle /\ norm = Idle /\ matcher = Idle
    /\ probe = Idle /\ linker = Idle /\ analysis = Idle

Next ==
    \/ HandlerEnter
    \/ ScrapeHomepage
    \/ ScrapeValidate
    \/ ScrapeCatalog
    \/ ScrapeBrand
    \/ ScrapeFaqs
    \/ ScrapePolicies
    \/ ScrapeAssemble
    \/ HandlerRespond

Spec == Init /\ [][Next]_vars

\* the scrape has returned its BrandInsights
ScrapeDone == run.pc \in {"scraped", "responded"}

\* C8: a failed homepage fetch ends in an error that the router classifies as
\* inaccessible and answers 401; a 200 homepage without marker and with an
\* empty catalog probe ends in an error that the router does not classify as
\* inaccessible and answers 500.
C8_ErrorTaxonomy ==
    /\ (ScrapeDone /\ run.exit = "inaccessible") =>
          /\ run.result.status = "error"
          /\ IsInaccessible(run.result.error_message[1])
          /\ run.pc = "responded" => run.http = 401
    /\ (ScrapeDone /\ run.exit = "not_shopify") =>
          /\ run.result.status = "error"
          /\ ~IsInaccessible(run.result.error_message[1])
          /\ run.pc = "responded" => run.http = 500

\* C9: every BrandInsights that scrape_shopify_store returns has
\* total_products = len(product_catalog), has status error exactly when
\* error_message is set, and with status error has every other field at its
\* default.
C9_AggregateConsistency ==
    ScrapeDone =>
        LET b == run.result
        IN  /\ b.total_products = Len(b.product_catalog)
            /\ b.status \in {"success", "error"}
            /\ b.status = "error" <=> b.error_message # None
            /\ b.status = "error" =>
                  b = [BrandInsightsDefaults EXCEPT !.status = "error",
                                                    !.error_message = b.error_message]
                      @@ [website_url |-> b.website_url]

C9_Witness ==
    /\ run.pc = "scraped"
    /\ run.exit = "success"
    /\ run.result.total_products = 287
    /\ run.result.policies.refund_policy # None
    /\ "Contact Us" \in DOMAIN run.result.important_links

\* C10: in every BrandInsights returned, each hero product is an entry of the
\* product catalog, and there are at most 8 hero products.
C10_HeroSubset ==
    ScrapeDone =>
        LET b == run.result
        IN  /\ Len(b.hero_products) <= 8
            /\ \A i \in 1..Len(b.hero_products) :
                  \E j \in 1..Len(b.product_catalog) :
                      /\ b.product_catalog[j] = b.hero_products[i]
                      /\ b.product_catalog[j].handle = b.hero_products[i].handle

C10_Witness ==
    /\ run.pc = "scraped"
    /\ run.exit = "success"
    /\ run.html = HomeShop
    /\ Len(run.result.product_catalog) = 12
    /\ \E j \in 1..12 : run.result.product_catalog[j].handle \in LinkedHandles(run.html)

(***************************************************************************)
(* scrape_shopify_store as one call against one site: what the site's       *)
(* endpoints and the Groq completions answer to that call.                  *)
(***************************************************************************)

ScrapeStart(url) == [RunStart(url) EXCEPT !.pc = "scrape", !.session = "shared"]

\* the code from one await of scrape_shopify_store to the next
ScrapeStep(st, site) ==
    CASE st.pc = "scrape"   -> HomepageStep(st, site.home)
      [] st.pc = "validate" -> ValidateStep(st, site.probe)
      [] st.pc = "catalog"  -> CatalogStep(st, site.catalog)
      [] st.pc = "brand"    -> BrandStep(st, site.brand)
      [] st.pc = "faqs"     -> FaqsStep(st, site.faq)
      [] st.pc = "policies" -> PoliciesStep(st, site.policies)
      [] st.pc = "assemble" -> AssembleStep(st)

RECURSIVE ScrapeRun(_, _)
ScrapeRun(st, site) ==
    IF st.pc = "scraped" THEN st ELSE ScrapeRun(ScrapeStep(st, site), site)

scrape_shopify_store(url, site) == ScrapeRun(ScrapeStart(url), site)

NoPolicies == [kind \in PolicyKinds |-> <<Missing, Missing, Missing>>]

\* a store with a marker, three products and every enrichment
GoodSite ==
    [home     |-> <<Resp(429, EmptyHtml), Resp(200, HomeShop), ConnError>>,
     probe    |-> <<PageOf(RecordsPage(3))>>,
     catalog  |-> <<PageOf(RecordsPage(3))>>,
     brand    |-> BrandFull,
     faq      |-> Found,
     policies |-> [kind \in PolicyKinds |-> <<Missing, Found, Missing>>]]

\* a store without a marker whose catalog answers, and a silent Groq
FineSite ==
    [home     |-> <<Resp(200, HomePlain), ConnError, ConnError>>,
     probe    |-> <<PageOf(<<Rec(<<"k">>)>>)>>,
     catalog  |-> <<PageOf(<<Rec(<<"k">>)>>)>>,
     brand    |-> JObj(NoFields),
     faq      |-> Missing,
     policies |-> NoPolicies]

\* a site that refuses every request
DownSite ==
    [home     |-> <<Resp(403, SampleDoc), Resp(403, SampleDoc), Resp(403, SampleDoc)>>,
     probe    |-> <<Resp(403, JNull)>>,
     catalog  |-> <<Resp(403, JNull)>>,
     brand    |-> JObj(NoFields),
     faq      |-> Missing,
     policies |-> NoPolicies]

\* a page without a marker and without a catalog
PlainSite ==
    [DownSite EXCEPT !.home = <<Resp(200, HomeBare), ConnError, ConnError>>,
                     !.probe = <<Resp(404, JNull)>>,
                     !.catalog = <<Resp(404, JNull)>>]

\* a store whose catalog holds a record that parse_product raises on
OddSite ==
    [GoodSite EXCEPT !.catalog = <<PageOf(<<Rec(<<"a">>), RecBroken>>)>>]

\* lines 46, 72, 163-167 on a session that is closed: session.get raises
OffSession(site) ==
    [site EXCEPT !.home     = [i \in 1..Len(@) |-> ConnError],
                 !.probe    = <<ConnError>>,
                 !.catalog  = <<ConnError>>,
                 !.faq      = [i \in 1..Len(@) |-> ConnError],
                 !.policies = [kind \in PolicyKinds |->
                                 <<<<ConnError, ConnError, ConnError>>,
                                   <<ConnError, ConnError, ConnError>>,
                                   <<ConnError, ConnError, ConnError>>>>]]

\* what a site answers on the scraper's session
OnSession(session, site) == IF session = "open" THEN site ELSE OffSession(site)

\* the calls of the log that go through the scraper's session
SessionCalls ==
    {"fetch_url:homepage", "get_products_json:probe", "get_products_json",
     "fetch_url:faq", "fetch_url:policy"}

\* the session calls that a step from `before` to `after` added to the log
Issued(before, after, session) ==
    {[call |-> after.calls[i], session |-> session] :
        i \in {j \in (Len(before.calls) + 1)..Len(after.calls) :
                  after.calls[j] \in SessionCalls}}

\* lines 30-32: __aexit__
aexit(session) == IF session # "none" THEN "closed" ELSE session

(***************************************************************************)
(* One request to POST /api/v1/competitor-analysis: get_competitor_analysis *)
(* around the scrape of the primary site, find_competitors and the gathered *)
(* fetch_competitor tasks.  The tasks run interleaved, one step per await;  *)
(* analysis.gets holds the calls made through the scraper's session, each   *)
(* with the state of the session when it was made.                          *)
(***************************************************************************)

\* line 82
CompetitorLimit == 2

\* how many candidates find_competitors names at most
MaxCandidates == 3

DomGood == <<"g", ".", "c", "o">>
DomFine == <<"f", ".", "c", "o">>
DomDown == <<"d", ".", "c", "o">>

\* the site behind a competitor URL
SiteOf(url) ==
    CASE url = HttpsScheme \o DomGood -> GoodSite
      [] url = HttpsScheme \o DomFine -> FineSite
      [] OTHER -> DownSite

\* what the primary site may be
MainSites == {GoodSite, FineSite, DownSite, PlainSite, OddSite}

\* sequences over S of length at most n
RECURSIVE SeqsUpTo(_, _)
SeqsUpTo(S, n) ==
    IF n = 0 THEN {<<>>}
    ELSE LET shorter == SeqsUpTo(S, n - 1)
         IN  shorter \cup {Append(q, x) : q \in shorter, x \in S}

\* find_competitors returns json.loads of the completion, whatever JSON value
\* that is, or [] when the call or the parsing fails
CandidateItems == {JStr(DomGood), JStr(DomFine), JStr(DomDown), JNum(7)}

FoundCompetitors ==
    {JList(q) : q \in SeqsUpTo(CandidateItems, MaxCandidates)}
    \cup {JObj(NoFields), JNull}

\* CompetitorAnalysis(main_brand=..., competitors=...)
CompetitorAnalysis(main_brand, competitors) ==
    [main_brand |-> main_brand, competitors |-> competitors]

\* analysis.site is what the primary site answers, analysis.scrape the scrape
\* of the primary site, analysis.asked whether find_competitors was called
AnalysisStart(url) ==
    [pc |-> "request", session |-> "none", url |-> url, site |-> DownSite,
     scrape |-> ScrapeStart(url), main |-> None, asked |-> FALSE,
     candidates |-> JNull,
     tasks |-> <<>>, gets |-> {}, http |-> 0, result |-> None]

\* the handler leaves the `async with` block with status code `code`
AnalysisResponds(st, code, result) ==
    [st EXCEPT !.pc = "responded", !.session = aexit(@), !.http = code,
               !.result = result]

\* router lines 56-63: the status code for a primary site that failed
AnalysisErrorCode(error_message) ==
    IF IsInaccessible(error_message) THEN 401 ELSE 400

\* a fetch_competitor coroutine for one candidate
TaskStart(comp_url) ==
    [pc |-> "start", comp_url |-> comp_url, st |-> ScrapeStart(<<>>),
     val |-> None]

\* router lines 70-80, from one await to the next
TaskStep(t, session) ==
    CASE t.pc = "start" ->
            \* line 71 is outside the try block: startswith on a value that is
            \* no str raises out of the coroutine
            IF ~IsStr(t.comp_url) THEN [t EXCEPT !.pc = "raised"]
            ELSE [t EXCEPT !.pc = "sleep",
                           !.comp_url = JStr(NormalizeUrl(t.comp_url.s))]
      [] t.pc = "sleep" ->
            [t EXCEPT !.pc = "scrape", !.st = ScrapeStart(t.comp_url.s)]
      [] t.pc = "scrape" ->
            LET site == OnSession(session, SiteOf(t.comp_url.s))
                s1   == ScrapeStep(t.st, site)
            IN  IF s1.pc # "scraped" THEN [t EXCEPT !.st = s1]
                ELSE [t EXCEPT !.pc = "done", !.st = s1,
                               !.val = IF s1.result.status = "success"
                                       THEN Some(s1.result) ELSE None]

\* router lines 46-51
AnalysisEnter ==
    /\ analysis.pc = "request"
    /\ \E site \in MainSites :
          analysis' = [analysis EXCEPT !.pc = "main", !.session = "open",
                                       !.url = NormalizeUrl(@), !.site = site,
                                       !.scrape = ScrapeStart(NormalizeUrl(analysis.url))]
    /\ UNCHANGED <<fetch, pager, norm, matcher, run, probe, linker>>

\* the primary site without the status test of lines 56-63
AnalysisMain_nocheck ==
    /\ analysis.pc = "main"
    /\ \E site \in {OnSession(analysis.session, analysis.site)} :
       \E s1 \in {ScrapeStep(analysis.scrape, site)} :
          LET a1 == [analysis EXCEPT
                       !.scrape = s1,
                       !.gets = @ \cup Issued(analysis.scrape, s1, analysis.session)]
          IN  analysis' =
                IF s1.pc # "scraped" THEN a1
                ELSE [a1 EXCEPT !.main = Some(s1.result), !.pc = "find"]
    /\ UNCHANGED <<fetch, pager, norm, matcher, run, probe, linker>>

\* router lines 54-63: the primary site, one step of its scrape per await
AnalysisMain ==
    /\ analysis.pc = "main"
    /\ \E site \in {OnSession(analysis.session, analysis.site)} :
       \E s1 \in {ScrapeStep(analysis.scrape, site)} :
          LET a1 == [analysis EXCEPT
                       !.scrape = s1,
                       !.gets = @ \cup Issued(analysis.scrape, s1, analysis.session)]
              main_insights == s1.result
          IN  analysis' =
                IF s1.pc # "scraped" THEN a1
                ELSE IF main_insights.status = "error"
                THEN AnalysisResponds(
                        [a1 EXCEPT !.main = Some(main_insights)],
                        AnalysisErrorCode(main_insights.error_message[1]), None)
                ELSE [a1 EXCEPT !.main = Some(main_insights), !.pc = "find"]
    /\ UNCHANGED <<fetch, pager, norm, matcher, run, probe, linker>>

\* router lines 66-83: the candidates and a task for each of the first two;
\* slicing a value that is no list raises
AnalysisFind ==
    /\ analysis.pc = "find"
    /\ \E competitors_urls \in FoundCompetitors :
          LET s1 == [analysis EXCEPT !.asked = TRUE,
                                     !.candidates = competitors_urls]
          IN  analysis' =
                IF ~IsList(competitors_urls) THEN AnalysisResponds(s1, 500, None)
                ELSE LET chosen == Prefix(competitors_urls.items, CompetitorLimit)
                     IN  [s1 EXCEPT !.pc = "gather",
                                    !.tasks = [i \in 1..Len(chosen) |->
                                                  TaskStart(chosen[i])]]
    /\ UNCHANGED <<fetch, pager, norm, matcher, run, probe, linker>>

\* one task runs up to its next await; asyncio.gather leaves the tasks running
\* when it has raised
CompetitorStep ==
    /\ analysis.pc \in {"gather", "responded"}
    /\ \E i \in 1..Len(analysis.tasks) :
          /\ analysis.tasks[i].pc \notin {"done", "raised"}
          /\ \E t1 \in {TaskStep(analysis.tasks[i], analysis.session)} :
                analysis' = [analysis EXCEPT
                               !.tasks[i] = t1,
                               !.gets = @ \cup Issued(analysis.tasks[i].st, t1.st,
                                                      analysis.session)]
    /\ UNCHANGED <<fetch, pager, norm, matcher, run, probe, linker>>

\* router lines 83, 93-95: gather raises what a task raises, as soon as it does
GatherRaises ==
    /\ analysis.pc = "gather"
    /\ \E i \in 1..Len(analysis.tasks) : analysis.tasks[i].pc = "raised"
    /\ analysis' = AnalysisResponds(analysis, 500, None)
    /\ UNCHANGED <<fetch, pager, norm, matcher, run, probe, linker>>

\* router lines 83-89: the results in the order of the tasks, None dropped
GatherReturns ==
    /\ analysis.pc = "gather"
    /\ \A i \in 1..Len(analysis.tasks) : analysis.tasks[i].pc = "done"
    /\ LET IsSome(t) == t.val # None
           kept == SelectSeq(analysis.tasks, IsSome)
           competitor_insights == [i \in 1..Len(kept) |-> kept[i].val[1]]
       IN  analysis' = AnalysisResponds(
                          analysis, 200,
                          Some(CompetitorAnalysis(analysis.main[1],
                                                  competitor_insights)))
    /\ UNCHANGED <<fetch, pager, norm, matcher, run, probe, linker>>

InitAnalysis ==
    /\ analysis = AnalysisStart(SiteUrl)
    /\ fetch = Idle /\ pager = Idle /\ norm = Idle /\ matcher = Idle
    /\ run = Idle /\ probe = Idle /\ linker = Idle

NextAnalysis ==
    \/ AnalysisEnter
    \/ AnalysisMain
    \/ AnalysisFind
    \/ CompetitorStep
    \/ GatherRaises
    \/ GatherReturns

SpecAnalysis == InitAnalysis /\ [][NextAnalysis]_vars

\* what the scrape of a candidate domain returns while the session is open
CandidateInsights(item) ==
    LET comp_url == NormalizeUrl(item.s)
    IN  scrape_shopify_store(comp_url, SiteOf(comp_url)).result

\* the insights of the candidates whose scrape succeeds, in candidate order
SuccessfulCandidates(items) ==
    LET Succeeds(item) == CandidateInsights(item).status = "success"
        kept == SelectSeq(items, Succeeds)
    IN  [i \in 1..Len(kept) |-> CandidateInsights(kept[i])]

\* the primary site succeeded and find_competitors named n domains
NamedCandidates(n) ==
    /\ analysis.pc = "responded"
    /\ analysis.main # None
    /\ analysis.main[1].status = "success"
    /\ IsList(analysis.candidates)
    /\ Len(analysis.candidates.items) = n
    /\ \A i \in 1..n : IsStr(analysis.candidates.items[i])

\* C11: when find_competitors names three domains of which one succeeds and
\* two fail, whatever the position of the successful one, the handler answers
\* 200 with a competitors list that holds exactly the successful one.
C11_CompetitorPartialSuccess ==
    (/\ NamedCandidates(3)
     /\ Len(SuccessfulCandidates(analysis.candidates.items)) = 1) =>
        /\ analysis.http = 200
        /\ analysis.result # None
        /\ analysis.result[1].competitors =
              SuccessfulCandidates(analysis.candidates.items)

\* the call is in the log of the scrape
Called(st, call) == \E i \in 1..Len(st.calls) : st.calls[i] = call

\* the exception, if any, of the steps of the scrape that st has been through:
\* the normalization of the catalog (line 243), then the assembly (269-304)
RaisedIn(st) ==
    IF Called(st, "get_products_json") /\ ParseAll(st.products_data).pc = "raised"
    THEN Some(ParseAll(st.products_data).exc)
    ELSE IF st.pc \notin {"faqs", "policies", "assemble"}
            /\ Called(st, "fetch_url:policy") /\ Assemble(st).pc = "raised"
    THEN Some(Assemble(st).exc)
    ELSE None

\* C12: scrape_shopify_store never ends by raising, and when one of its steps
\* raises it returns a BrandInsights with status error whose error_message is
\* the message of that exception, every other field at its default.
C12_ExceptionsCaught ==
    /\ run.pc # "raised"
    /\ RaisedIn(run) # None =>
          /\ run.pc \in {"scraped", "responded"}
          /\ run.result = ErrorInsights(run.url, RaisedIn(run)[1])
    /\ (ScrapeDone /\ run.exit = "exception") => RaisedIn(run) # None

C12_Witness ==
    /\ run.pc = "scraped"
    /\ RaisedIn(run) = Some(ValidationErrorMsg)
    /\ run.result.status = "error"
    /\ run.result.error_message = Some(ValidationErrorMsg)

\* C13: when the competitor-analysis handler has answered, the session it
\* opened is closed, and no call is ever made through the session while it is
\* closed.
C13_SessionScoped ==
    /\ analysis.pc = "responded" => analysis.session = "closed"
    /\ \A g \in analysis.gets : g.session = "open"

\* C14: once the catalog is loaded, whatever extract_brand_info, the FAQ
\* page, the policy probes and the homepage links give, the scrape ends with
\* status success and keeps the catalog it loaded.
C14_EnrichmentBestEffort ==
    (ScrapeDone /\ Called(run, "groq:extract_brand_info")) =>
        /\ run.result.status = "success"
        /\ run.result.product_catalog = run.all_products

\* C15: the competitor-analysis handler answers as the insights handler does:
\* 200 when the primary site succeeded and the analysis was built, 401 when
\* the primary site failed with a message that says it is not accessible, 500
\* when it failed with any other message.
C15_StatusMapping ==
    (analysis.pc = "responded" /\ analysis.main # None) =>
        LET main_insights == analysis.main[1]
        IN  /\ analysis.result # None => analysis.http = 200
            /\ main_insights.status = "error" =>
                  analysis.http = ResponseCode(main_insights)

\* the record is malformed: the try block of parse_product raises on it
Malformed(record) == ParseTry(record).pc = "raised"

\* C16: when the catalog that was fetched holds exactly one malformed record,
\* the scrape ends with status success and a product catalog of as many
\* entries as records, the malformed one as the product titled "Parse Error"
\* with handle "error" and every other one as parse_product builds it.
C16_MalformedRecordTolerated ==
    LET records == run.products_data
        broken  == {i \in 1..Len(records) : Malformed(records[i])}
    IN  (/\ ScrapeDone
         /\ Called(run, "get_products_json")
         /\ run.brand_info \in {JNull, BrandFull, JObj(NoFields)}
         /\ Cardinality(broken) = 1) =>
            LET catalog == run.result.product_catalog
            IN  /\ run.result.status = "success"
                /\ Len(catalog) = Len(records)
                /\ \A i \in 1..Len(catalog) :
                      IF i \in broken
                      THEN /\ catalog[i].title = <<"P", "a", "r", "s", "e", " ",
                                                   "E", "r", "r", "o", "r">>
                           /\ catalog[i].handle = <<"e", "r", "r", "o", "r">>
                      ELSE catalog[i] = ParseTry(records[i]).val

\* an outcome on which fetch_url tries again
IsTransient(o) == o.kind = "exc" \/ o.status = 429

\* C17: when the request for page K+1 fails transiently (a 429 or an
\* exception) and the next request is answered with a page of records, the
\* paginator asks for page K+1 again and returns that page's records after
\* those of the K full pages before it.
C17_PagesThroughFetcher ==
    \A k \in 0..(MaxPages - 2) :
        (/\ pager.pc = "returned"
         /\ FullPages(pager.script, k)
         /\ IsTransient(pager.script[k + 1])
         /\ IsShortPage(pager.script[k + 2])) =>
            /\ pager.reqs = [i \in 1..(k + 2) |-> IF i <= k THEN i ELSE k + 1]
            /\ Len(pager.products) =
                  k * PageSize + Len(pager.script[k + 2].body.fields.products.items)

\* the catalog endpoint is unreachable or answers another status than 200
Unreachable(script) == script[1].kind = "exc" \/ script[1].status # 200

\* C18: when the homepage was fetched with status 200 and the catalog
\* endpoint is unreachable or answers a status other than 200, the scrape
\* ends with status error and a message that says the site is not accessible,
\* with or without a platform marker on the homepage.
C18_CatalogInaccessible ==
    (/\ ScrapeDone
     /\ run.status = 200
     /\ run.endpoint # <<>>
     /\ Unreachable(run.endpoint)
     /\ run.brand_info \in {JNull, BrandFull, JObj(NoFields)}) =>
        /\ run.result.status = "error"
        /\ IsInaccessible(run.result.error_message[1])

(***************************************************************************)
(* The link discoverer on its own: one homepage, one call.                  *)
(***************************************************************************)

\* how many nodes the sample pages of the link discoverer hold at most
MaxAnchors == 3

LinkNodes ==
    {Anchor(<<"/", "c", "o", "n", "t", "a", "c", "t">>),
     Anchor(<<"/", "p", "a", "g", "e", "s", "/", "c", "o", "n", "t", "a", "c", "t">>),
     Anchor(<<"/", "B", "l", "o", "g", "s", "/", "n", "e", "w", "s">>),
     Anchor(<<"h", "e", "l", "p">>),
     Anchor(<<"h", "t", "t", "p", "s", ":", "/", "/", "x", ".", "i", "o", "/",
              "h", "e", "l", "p">>),
     BareAnchor,
     Text(<<"/", "f", "a", "q">>)}

LinkPages == SeqsUpTo(LinkNodes, MaxAnchors)

InitLinks ==
    /\ linker \in {[pc |-> "call", html |-> h, base_url |-> SiteUrl] : h \in LinkPages}
    /\ fetch = Idle /\ pager = Idle /\ norm = Idle /\ matcher = Idle
    /\ run = Idle /\ probe = Idle /\ analysis = Idle

\* extract_important_links(html, base_url)
DiscoverLinks ==
    /\ linker.pc = "call"
    /\ linker' = [linker EXCEPT !.pc = "returned"]
                     @@ [val |-> extract_important_links(linker.html, linker.base_url)]
    /\ UNCHANGED <<fetch, pager, norm, matcher, run, probe, analysis>>

NextLinks == DiscoverLinks

SpecLinks == InitLinks /\ [][NextLinks]_vars

\* the index of the first anchor, in document order, whose href one of the
\* patterns matches case-insensitively; 0 when there is none
FirstMatch(html, patterns) ==
    LET hits == {i \in 1..Len(html) :
                    /\ html[i].tag = "a"
                    /\ "href" \in DOMAIN html[i]
                    /\ \E j \in 1..Len(patterns) :
                          Contains(Lower(html[i].href), Lower(patterns[j]))}
    IN  IF hits = {} THEN 0 ELSE CHOOSE i \in hits : \A j \in hits : i <= j

\* C19: for each of the seven categories extract_important_links records the
\* resolved URL of the first anchor in document order whose href matches one
\* of the category's patterns, whichever pattern that is, and records nothing
\* for a category that no anchor matches.
C19_FirstAnchorWins ==
    linker.pc = "returned" =>
        /\ DOMAIN linker.val \subseteq {LinkPatterns[k].name : k \in 1..Len(LinkPatterns)}
        /\ \A k \in 1..Len(LinkPatterns) :
              LET name == LinkPatterns[k].name
                  i    == FirstMatch(linker.html, LinkPatterns[k].patterns)
              IN  IF i = 0 THEN name \notin DOMAIN linker.val
                  ELSE /\ name \in DOMAIN linker.val
                       /\ linker.val[name] = UrlJoin(linker.base_url, linker.html[i].href)

(***************************************************************************)
(* The policy discoverer on its own: one site, one call.                    *)
(***************************************************************************)

Slow == <<Resp(429, EmptyHtml), Resp(200, SampleDoc), ConnError>>
Down == <<ConnError, ConnError, ConnError>>

\* what a site may answer for the three candidates of one policy kind
KindAnswers ==
    {<<Found, Found, Missing>>, <<Blank, Slow, Found>>, <<Missing, Down, Found>>,
     <<Missing, Blank, Down>>}

ProbeSites == [PolicyKinds -> KindAnswers]

InitPolicies ==
    /\ probe \in {[pc |-> "call", base_url |-> SiteUrl, site |-> s] : s \in ProbeSites}
    /\ fetch = Idle /\ pager = Idle /\ norm = Idle /\ matcher = Idle
    /\ run = Idle /\ linker = Idle /\ analysis = Idle

\* extract_policies(base_url)
DiscoverPolicies ==
    /\ probe.pc = "call"
    /\ probe' = [probe EXCEPT !.pc = "returned"]
                    @@ [val |-> extract_policies(probe.base_url, probe.site)]
    /\ UNCHANGED <<fetch, pager, norm, matcher, run, linker, analysis>>

NextPolicies == DiscoverPolicies

SpecPolicies == InitPolicies /\ [][NextPolicies]_vars

\* the index of the first candidate of the k-th kind whose fetch returns
\* status 200 with a body that is not empty; 0 when there is none
FirstFound(site, k) ==
    LET scripts == site[PolicyUrls[k].kind]
        ok == {i \in 1..Len(PolicyUrls[k].paths) :
                  LET r == fetch_url(scripts[i])
                  IN  r.status = 200 /\ r.body # EmptyHtml}
    IN  IF ok = {} THEN 0 ELSE CHOOSE i \in ok : \A j \in ok : i <= j

\* the URLs of the candidates of the k-th kind up to its first success, all of
\* them when there is none
ProbedFor(base_url, site, k) ==
    LET paths == PolicyUrls[k].paths
        first == FirstFound(site, k)
        last  == IF first = 0 THEN Len(paths) ELSE first
    IN  [i \in 1..last |-> UrlJoin(base_url, paths[i])]

\* C20: for each policy kind extract_policies records the URL of the first
\* candidate, in the listed order, whose fetch returns 200 with a non-empty
\* body, and nothing when there is none; it fetches the candidates of a kind
\* in order up to that one and no later one, kind after kind; what it records
\* for a kind depends on the answers to that kind's candidates only.
C20_PolicyProbing ==
    probe.pc = "returned" =>
        /\ \A k \in 1..Len(PolicyUrls) :
              LET first == FirstFound(probe.site, k)
              IN  probe.val.policies[PolicyUrls[k].kind] =
                     IF first = 0 THEN None
                     ELSE Some(UrlJoin(probe.base_url, PolicyUrls[k].paths[first]))
        /\ probe.val.fetched =
              ProbedFor(probe.base_url, probe.site, 1)
                \o ProbedFor(probe.base_url, probe.site, 2)
                \o ProbedFor(probe.base_url, probe.site, 3)
                \o ProbedFor(probe.base_url, probe.site, 4)
                \o ProbedFor(probe.base_url, probe.site, 5)

C20_Witness ==
    /\ probe.pc = "returned"
    /\ probe.site["privacy_policy"] = <<Found, Found, Missing>>
    /\ probe.site["return_policy"] = <<Blank, Slow, Found>>
    /\ probe.site["refund_policy"] = <<Missing, Blank, Down>>
    /\ probe.val.policies["privacy_policy"] =
          Some(UrlJoin(SiteUrl, PolicyUrls[1].paths[1]))
    /\ probe.val.policies["return_policy"] =
          Some(UrlJoin(SiteUrl, PolicyUrls[2].paths[2]))
    /\ probe.val.policies["refund_policy"] = None
    /\ probe.val.fetched[5] = probe.val.fetched[3]

(***************************************************************************)
(* Partial results of the paginator.                                        *)
(***************************************************************************)

\* a page request that fails: an exception of the GET, a status other than
\* 200, or a 200 whose body is not a JSON object (data.get raises)
IsFailedPage(o) == o.kind = "exc" \/ o.status # 200 \/ ~IsDict(o.body)

\* the records of k full pages, in order
FullPagesRecords(k) ==
    [i \in 1..(k * PageSize) |-> RecordsPage(PageSize)[((i - 1) % PageSize) + 1]]

\* C21: when the request for page p fails (a status other than 200, or an
\* exception) after p-1 full pages, get_products_json stops there: it makes no
\* request after that of page p, does not raise, and returns exactly the
\* records of pages 1..p-1.
C21_PartialPagination ==
    \A k \in 0..(MaxPages - 1) :
        (FullPages(pager.script, k) /\ IsFailedPage(pager.script[k + 1])) =>
            /\ pager.pc \in {"loop", "returned"}
            /\ Len(pager.reqs) <= k + 1
            /\ pager.pc = "loop" => Len(pager.reqs) <= k
            /\ pager.pc = "returned" =>
                  /\ pager.reqs = [i \in 1..(k + 1) |-> i]
                  /\ pager.products = FullPagesRecords(k)

C21_Witness ==
    /\ FullPages(pager.script, 2) /\ pager.script[3] = ConnError
    /\ pager.pc = "returned"
    /\ pager.reqs = <<1, 2, 3>>
    /\ Len(pager.products) = 500
    /\ pager.products = FullPagesRecords(2)

(***************************************************************************)
(* The run after a failed homepage fetch.                                   *)
(***************************************************************************)

\* fetch_url has answered for the homepage
HomepageFetched == Called(run, "fetch_url:homepage")

\* C22: when the homepage fetch ends with a status other than 200, the scrape
\* returns at once the error "Website not accessible. Status code: <status>":
\* the homepage fetch is the only call the run ever makes (no catalog
\* request, no FAQ or policy fetch, no text-understanding call).
C22_FailedHomepageEndsRun ==
    (HomepageFetched /\ run.status # 200) =>
        /\ ScrapeDone
        /\ run.exit = "inaccessible"
        /\ run.calls = <<"fetch_url:homepage">>
        /\ run.result.status = "error"
        /\ run.result.error_message = Some(NotAccessibleMsg(run.status))
        /\ IsInaccessible(run.result.error_message[1])
        /\ run.all_products = <<>>

C22_Witness ==
    /\ run.pc = "responded"
    /\ run.status = 500
    /\ run.http = 401
    /\ run.calls = <<"fetch_url:homepage">>
    /\ run.result.status = "error"
    /\ run.result.error_message = Some(NotAccessibleMsg(500))

(***************************************************************************)
(* Competitor mode after the primary site.                                  *)
(***************************************************************************)

\* C23: find_competitors is called, and a competitor task exists or scrapes,
\* only once the scrape of the primary site has returned status success; when
\* the primary scrape returns an error the handler answers without having
\* called find_competitors and without any competitor task.
C23_CompetitorsAfterPrimary ==
    /\ (analysis.asked \/ analysis.tasks # <<>>) =>
          /\ analysis.scrape.pc = "scraped"
          /\ analysis.main # None
          /\ analysis.main[1] = analysis.scrape.result
          /\ analysis.main[1].status = "success"
    /\ (analysis.main # None /\ analysis.main[1].status = "error") =>
          /\ analysis.pc = "responded"
          /\ ~analysis.asked
          /\ analysis.tasks = <<>>
          /\ analysis.result = None
          /\ \A g \in analysis.gets : g.session = "open"

C23_Witness ==
    /\ analysis.pc = "responded"
    /\ analysis.main # None
    /\ analysis.main[1].status = "error"
    /\ analysis.http = 401
    /\ ~analysis.asked
    /\ analysis.tasks = <<>>

(***************************************************************************)
(* The competitor tasks against each other.                                 *)
(***************************************************************************)

\* what fetch_competitor returns for a candidate when nothing else runs
AloneResult(item) ==
    IF CandidateInsights(item).status = "success"
    THEN Some(CandidateInsights(item)) ELSE None

\* C24: the competitor tasks are independent under every interleaving: a task
\* that ends returns what the scrape of its candidate returns on its own, and
\* once the handler has answered, the successful scrape of a candidate is in
\* the response whatever became of the other task (error result or
\* exception).
C24_SubScrapesIndependent ==
    \A i \in 1..Len(analysis.tasks) :
        LET t == analysis.tasks[i]
        IN  IsStr(t.comp_url) =>
              /\ t.pc = "done" => t.val = AloneResult(t.comp_url)
              /\ (analysis.pc = "responded" /\ AloneResult(t.comp_url) # None) =>
                    /\ analysis.result # None
                    /\ \E k \in 1..Len(analysis.result[1].competitors) :
                          analysis.result[1].competitors[k] = AloneResult(t.comp_url)[1]

(***************************************************************************)
(* The price of a normalized product.                                       *)
(***************************************************************************)

\* the variant has a price that is not null
HasPrice(variant) ==
    IsDict(variant) /\ HasKey(variant, "price") /\ variant.fields.price.t # "null"

\* C25: the price of the product parse_product returns is str() of the first
\* variant's price when the record has a non-empty variants list whose first
\* variant has a price that is not null, and is absent (None) otherwise: a
\* first variant without a price, or with a null price, gives no price.
C25_PriceFromFirstVariant ==
    norm.pc = "returned" =>
        LET variants == Get(norm.raw, "variants", JList(<<>>))
        IN  IF IsList(variants) /\ variants.items # <<>>
                                /\ HasPrice(variants.items[1])
            THEN norm.val.price = Some(PyStr(variants.items[1].fields.price))
            ELSE norm.val.price = None

====
